---------------------------- MODULE Spec2Model ----------------------------
(***************************************************************************)
(* EPG processor (src/processar.py): the timestamp adjuster, the offset    *)
(* resolver and one run of EPGProcessor.process over a feed.               *)
(*                                                                         *)
(* Strings are sequences of one-character strings, so that lengths, digit  *)
(* tests, parsing and formatting are computed and not assumed.             *)
(***************************************************************************)
EXTENDS Integers, Sequences, FiniteSets, TLC

(***************************************************************************)
(* Characters and numbers                                                  *)
(***************************************************************************)
Digits == <<"0", "1", "2", "3", "4", "5", "6", "7", "8", "9">>

IsDigit(c) == \E i \in 1..10 : Digits[i] = c

DigitVal(c) == (CHOOSE i \in 1..10 : Digits[i] = c) - 1

AllDigits(s) == \A i \in 1..Len(s) : IsDigit(s[i])

RECURSIVE ToInt(_)
\* int(s) of a string of decimal digits
ToInt(s) ==
    IF s = <<>> THEN 0
    ELSE ToInt(SubSeq(s, 1, Len(s) - 1)) * 10 + DigitVal(s[Len(s)])

RECURSIVE Decimal(_)
\* the decimal digits of n >= 0, without padding
Decimal(n) ==
    IF n < 10 THEN <<Digits[n + 1]>>
    ELSE Decimal(n \div 10) \o <<Digits[(n % 10) + 1]>>

\* two digits, zero padded (%m %d %H %M %S of strftime)
Pad2(n) == <<Digits[(n \div 10) + 1], Digits[(n % 10) + 1]>>

\* %Y of strftime as the C library of the platform prints it: the year in
\* decimal, four digits for every year from 1000 on
YearStr(y) == Decimal(y)

(***************************************************************************)
(* Calendar arithmetic of datetime (proleptic Gregorian, years 1..9999)    *)
(***************************************************************************)
IsLeap(y) == y % 4 = 0 /\ (y % 100 # 0 \/ y % 400 = 0)

DaysInMonth(y, m) ==
    IF m = 2 THEN (IF IsLeap(y) THEN 29 ELSE 28)
    ELSE IF m \in {4, 6, 9, 11} THEN 30 ELSE 31

RECURSIVE DaysBeforeMonth(_, _)
DaysBeforeMonth(y, m) ==
    IF m = 1 THEN 0 ELSE DaysBeforeMonth(y, m - 1) + DaysInMonth(y, m - 1)

DaysBeforeYear(y) ==
    (y - 1) * 365 + (y - 1) \div 4 - (y - 1) \div 100 + (y - 1) \div 400

\* date.toordinal: 1 is 0001-01-01
Ymd2Ord(y, m, d) == DaysBeforeYear(y) + DaysBeforeMonth(y, m) + d

\* date.fromordinal, by the 400/100/4/1-year cycles
Ord2Ymd(ord) ==
    LET n0   == ord - 1
        n400 == n0 \div 146097
        r400 == n0 % 146097
        n100 == r400 \div 36524
        r100 == r400 % 36524
        n4   == r100 \div 1461
        r4   == r100 % 1461
        n1   == r4 \div 365
        n    == r4 % 365
        year == n400 * 400 + 1 + n100 * 100 + n4 * 4 + n1
    IN  IF n1 = 4 \/ n100 = 4
        THEN [year |-> year - 1, month |-> 12, day |-> 31]
        ELSE LET m0    == (n + 50) \div 32
                 prec0 == DaysBeforeMonth(year, m0)
                 month == IF prec0 > n THEN m0 - 1 ELSE m0
                 prec  == DaysBeforeMonth(year, month)
             IN  [year |-> year, month |-> month, day |-> n - prec + 1]

\* the fields datetime(...) accepts; anything else raises ValueError
ValidDateTime(y, mo, d, h, mi, s) ==
    /\ y >= 1 /\ y <= 9999
    /\ mo >= 1 /\ mo <= 12
    /\ d >= 1 /\ d <= DaysInMonth(y, mo)
    /\ h >= 0 /\ h <= 23
    /\ mi >= 0 /\ mi <= 59
    /\ s >= 0 /\ s <= 59

(***************************************************************************)
(* dateutil's parser on the strings of a feed (src/processar.py:257).      *)
(* Covered: runs of digits, spaces, a sign and the letter x; a date of 8,  *)
(* 12 or 14 digits, alone or (12, 14 digits) followed by a signed          *)
(* four-digit offset.  Every other shape of these characters is refused    *)
(* with a ParserError.                                                     *)
(***************************************************************************)
RECURSIVE DigitRun(_)
\* the length of the run of digits s starts with
DigitRun(s) ==
    IF s = <<>> \/ ~IsDigit(s[1]) THEN 0 ELSE 1 + DigitRun(Tail(s))

RECURSIVE Lex(_)
\* timelex: maximal runs of digits are one token, every other character its own
Lex(s) ==
    IF s = <<>> THEN <<>>
    ELSE IF IsDigit(s[1])
         THEN LET k == DigitRun(s)
              IN  <<SubSeq(s, 1, k)>> \o Lex(SubSeq(s, k + 1, Len(s)))
         ELSE <<<<s[1]>>>> \o Lex(Tail(s))

IsSpace(tok) == tok = <<" ">>

\* the tokens the parser acts on: a space is a jump token and is skipped
Tokens(s) == SelectSeq(Lex(s), LAMBDA tok : ~IsSpace(tok))

ParseError == [ok |-> FALSE]

\* YYYYMMDD[hhmm[ss]] of _parse_numeric_token
DateFields(tok) ==
    [year   |-> ToInt(SubSeq(tok, 1, 4)),
     month  |-> ToInt(SubSeq(tok, 5, 6)),
     day    |-> ToInt(SubSeq(tok, 7, 8)),
     hour   |-> IF Len(tok) > 8 THEN ToInt(SubSeq(tok, 9, 10)) ELSE 0,
     minute |-> IF Len(tok) > 8 THEN ToInt(SubSeq(tok, 11, 12)) ELSE 0,
     second |-> IF Len(tok) > 12 THEN ToInt(SubSeq(tok, 13, 14)) ELSE 0]

\* the numbered timezone, in seconds:
\* signal * (hour_offset * 3600 + min_offset * 60)
TzOffset(sign, tok) ==
    (IF sign = <<"+">> THEN 1 ELSE -1)
        * (ToInt(SubSeq(tok, 1, 2)) * 3600 + ToInt(SubSeq(tok, 3, 4)) * 60)

\* date_parser.parse(time_str): the datetime, or the error it raises
Parse(s) ==
    LET toks == Tokens(s)
        isDate(tok, lens) == AllDigits(tok) /\ Len(tok) \in lens
        build(tok, aware, tz) ==
            LET f == DateFields(tok)
            IN  IF ValidDateTime(f.year, f.month, f.day, f.hour, f.minute, f.second)
                THEN [ok |-> TRUE, year |-> f.year, month |-> f.month, day |-> f.day,
                      hour |-> f.hour, minute |-> f.minute, second |-> f.second,
                      aware |-> aware, tz |-> tz]
                ELSE ParseError
    IN  IF Len(toks) = 1 /\ isDate(toks[1], {8, 12, 14})
        THEN build(toks[1], FALSE, 0)
        ELSE IF /\ Len(toks) = 3
                /\ isDate(toks[1], {12, 14})
                /\ toks[2] \in {<<"+">>, <<"-">>}
                /\ AllDigits(toks[3]) /\ Len(toks[3]) = 4
             THEN build(toks[1], TRUE, TzOffset(toks[2], toks[3]))
             ELSE ParseError

(***************************************************************************)
(* dt + timedelta(seconds = n) and strftime('%Y%m%d%H%M%S %z').strip()     *)
(***************************************************************************)
Raised == [ok |-> FALSE]

\* floor division and modulus of Python (the divisor is positive)
FloorDiv(a, b) == IF a >= 0 THEN a \div b ELSE -((-a + b - 1) \div b)

\* dt + timedelta(seconds = n); OverflowError outside years 1..9999
Shift(dt, n) ==
    LET secs == dt.hour * 3600 + dt.minute * 60 + dt.second + n
        days == FloorDiv(secs, 86400)
        rest == secs - days * 86400
        ord  == Ymd2Ord(dt.year, dt.month, dt.day) + days
    IN  IF ord < 1 \/ ord > Ymd2Ord(9999, 12, 31)
        THEN Raised
        ELSE LET ymd == Ord2Ymd(ord)
             IN  [ok |-> TRUE, year |-> ymd.year, month |-> ymd.month, day |-> ymd.day,
                  hour |-> rest \div 3600, minute |-> (rest % 3600) \div 60,
                  second |-> rest % 60, aware |-> dt.aware, tz |-> dt.tz]

\* %z: sign, hours and minutes of the utc offset
TzStr(tz) ==
    LET a == IF tz < 0 THEN -tz ELSE tz
    IN  <<IF tz < 0 THEN "-" ELSE "+">> \o Pad2(a \div 3600) \o Pad2((a % 3600) \div 60)

\* strftime('%Y%m%d%H%M%S %z').strip(); utcoffset() raises ValueError when
\* the offset is not strictly between -24 h and 24 h
Format(dt) ==
    LET date == YearStr(dt.year) \o Pad2(dt.month) \o Pad2(dt.day)
                \o Pad2(dt.hour) \o Pad2(dt.minute) \o Pad2(dt.second)
    IN  IF ~dt.aware
        THEN [ok |-> TRUE, text |-> date]
        ELSE IF dt.tz <= -86400 \/ dt.tz >= 86400
             THEN Raised
             ELSE [ok |-> TRUE, text |-> date \o <<" ">> \o TzStr(dt.tz)]

\* the body of the try block of _apply_timeshift
TryTimeshift(time_str, offset_seconds) ==
    LET dt == Parse(time_str)
    IN  IF ~dt.ok THEN Raised
        ELSE LET dt_shifted == Shift(dt, offset_seconds)
             IN  IF ~dt_shifted.ok THEN Raised ELSE Format(dt_shifted)

\* whether _apply_timeshift takes its except branch
SoftFails(time_str, offset_seconds) == ~TryTimeshift(time_str, offset_seconds).ok

\* EPGProcessor._apply_timeshift
ApplyTimeshift(time_str, offset_seconds) ==
    LET r == TryTimeshift(time_str, offset_seconds)
    IN  IF r.ok THEN r.text ELSE time_str

(***************************************************************************)
(* Bounds of the model and constants of the program                        *)
(***************************************************************************)
\* the clock takes the values 0..MaxTime (hours)
MaxTime == 2
\* set_force_timeshift is called with duration_hours in 0..MaxDuration
MaxDuration == 1
\* a feed holds at most MaxProgrammes programme records
MaxProgrammes == 2
\* a feed holds at most MaxChannels channel records
MaxChannels == 1
\* the processor is constructed at most MaxLoads times over one file
MaxLoads == 2

\* "default_offset_seconds": 30 of the default configuration
DefaultOffset == 30
\* "retry_attempts": 3 of the default configuration
RetryAttempts == 3
\* "keep_backups": 3 of the default configuration
KeepBackups == 3

Times == 0..MaxTime

\* an optional value: None, or Some(v)
None == <<>>
Some(v) == <<v>>
Val(o) == o[1]

(***************************************************************************)
(* The strings of the model                                                *)
(***************************************************************************)
\* well-formed timestamps, with and without a timezone token
TsLeap    == <<"2","0","2","4","0","2","2","9","2","3","5","9","5","9"," ","+","0","0","0","0">>
TsNaive   == <<"2","0","2","4","0","1","0","1","0","0","0","0","1","0">>
TsPlus    == <<"2","0","2","4","0","1","0","1","0","0","0","0","0","0"," ","+","0","1","0","0">>
TsMinus   == <<"2","0","2","3","1","2","3","1","2","3","5","9","5","9"," ","-","0","3","3","0">>
TsNegZero == <<"2","0","2","4","0","1","0","1","0","0","0","0","0","0"," ","-","0","0","0","0">>
TsLast    == <<"9","9","9","9","1","2","3","1","2","3","5","9","5","9">>
\* malformed timestamps
TsDateOnly == <<"2","0","2","4","0","1","0","1">>
TsNoSecs   == <<"2","0","2","4","0","1","0","1","1","0","3","0">>
TsEmpty    == <<>>
TsMonth13  == <<"2","0","2","4","1","3","0","1","0","0","0","0","0","0">>
TsFeb29    == <<"2","0","2","3","0","2","2","9","0","0","0","0","0","0">>
TsLetter   == <<"2","0","2","4","0","1","0","1","0","0","0","0","0","x">>
TsWord     == <<"x","x","x","x","x","x","x","x","x","x","x","x","x","x","x","x">>

TimestampInputs ==
    {TsLeap, TsNaive, TsPlus, TsMinus, TsNegZero, TsLast,
     TsDateOnly, TsNoSecs, TsEmpty, TsMonth13, TsFeb29, TsLetter, TsWord}

OffsetInputs == {-86400, -20, -1, 0, 1, 2, 30, 86400}

\* channel ids of the feed; the empty id is a programme without the attribute
ChannelIds == {"c1", "c2", ""}
\* the channel set_channel_timeshift is called for
ConfiguredChannels == {"c1"}
ChannelOffsets == {10}
ForcedOffsets == {0, 99}

\* a programme record: its channel attribute and its optional start and stop
Programme(ch, start, stop) == [channel |-> ch, start |-> start, stop |-> stop]

ProgrammeRecords ==
    {Programme("c1", Some(TsNaive), Some(TsLeap)),
     Programme("c2", Some(TsPlus), None),
     Programme("c1", Some(TsDateOnly), Some(TsLeap)),
     Programme("", Some(TsLetter), Some(TsWord))}

RECURSIVE SeqsUpTo(_, _)
\* the sequences over S of length at most n
SeqsUpTo(S, n) ==
    IF n = 0 THEN {<<>>}
    ELSE LET shorter == SeqsUpTo(S, n - 1)
         IN  shorter \cup {Append(q, x) : q \in {r \in shorter : Len(r) = n - 1}, x \in S}

\* what a download returns: bytes that parse to a document, or that do not
\* (feeds of every length under the root tv with one channel record; every
\* other root and channel count with at most one programme record)
Feeds ==
    [xml : {TRUE}, root : {"tv"}, channels : {1},
     programmes : SeqsUpTo(ProgrammeRecords, MaxProgrammes)]
    \cup [xml : {TRUE}, root : {"tv", "guide"}, channels : 0..MaxChannels,
          programmes : SeqsUpTo(ProgrammeRecords, 1)]
    \cup {[xml |-> FALSE, root |-> "", channels |-> 0, programmes |-> <<>>]}

NoFeed == [xml |-> FALSE, root |-> "", channels |-> 0, programmes |-> <<>>]

(***************************************************************************)
(* State                                                                   *)
(***************************************************************************)
VARIABLES
    now,          \* datetime.now(), in hours; a wall clock, it may step back
    config,       \* self.config: the timeshift section, source.retry_attempts
                  \* and the output section
    configFile,   \* the configuration file
    outputFile,   \* what the output filename holds: "missing", "previous"
                  \* (the output of an earlier run), "new" (xml of this run)
                  \* or "partial" (a write that failed half way)
    backups,      \* the timestamps of the backup files of the output
    pc,           \* where process() is
    attempt,      \* the attempts _download_epg has made
    feed,         \* the document as downloaded
    doc,          \* the programme records of the parsed tree, mutated in place
    metadata,     \* whether the tree holds the metadata record of this run
    idx,          \* the programme record the loop of _process_xml is at
    metrics,      \* self.metrics
    result,       \* what process() returned
    prevOutput,   \* history: outputFile when process() was called
    lastResolve,  \* history: the last call of _get_channel_offset, while the
                  \* loop over the programme records runs
    lapsed,       \* history: the forced offset and expiry the resolver cleared
    softFailures, \* history: calls of _apply_timeshift that took the except branch
    offsets,      \* history: the offset resolved for each programme record so far
    loads,        \* history: the constructions so far, each with the file it
                  \* read, the file it left and the configuration it returned
    adjPc, adjIn, adjN, adjOut, adjBack   \* the adjuster applied to one input

runVars == <<now, config, configFile, outputFile, backups, pc, attempt, feed, doc,
             metadata, idx, metrics, result, prevOutput, lastResolve, lapsed,
             softFailures, offsets, loads>>
adjVars == <<adjPc, adjIn, adjN, adjOut, adjBack>>
vars == <<runVars, adjVars>>

(***************************************************************************)
(* The offset resolver                                                     *)
(***************************************************************************)
\* _get_default_config: the timeshift section, "retry_attempts" of the source
\* section and the output section
DefaultConfig ==
    [default_offset_seconds |-> DefaultOffset,
     per_channel            |-> [c \in {} |-> 0],
     force_offset           |-> None,
     force_offset_expiry    |-> None,
     retry_attempts         |-> RetryAttempts,
     output                 |-> Some([keep_backups |-> KeepBackups,
                                      include_metadata |-> TRUE])]

\* lines 245-251: the per_channel value of an exact key, else the default
ChannelOrDefault(ts, channel_id) ==
    IF channel_id \in DOMAIN ts.per_channel
    THEN ts.per_channel[channel_id]
    ELSE ts.default_offset_seconds

\* the resolver with the per-channel value ahead of the forced offset
GetChannelOffsetChannelFirst(ts, channel_id, t) ==
    IF channel_id \in DOMAIN ts.per_channel
    THEN [offset |-> ts.per_channel[channel_id], timeshift |-> ts]
    ELSE IF ts.force_offset # None /\ ts.force_offset_expiry # None
              /\ t < Val(ts.force_offset_expiry)
         THEN [offset |-> Val(ts.force_offset), timeshift |-> ts]
         ELSE [offset |-> ts.default_offset_seconds,
               timeshift |-> [ts EXCEPT !.force_offset = None,
                                        !.force_offset_expiry = None]]

\* the resolver without lines 242-243: a lapsed forced offset is left in place
GetChannelOffsetKeepsLapsed(ts, channel_id, t) ==
    IF ts.force_offset # None /\ ts.force_offset_expiry # None
       /\ t < Val(ts.force_offset_expiry)
    THEN [offset |-> Val(ts.force_offset), timeshift |-> ts]
    ELSE [offset |-> ChannelOrDefault(ts, channel_id), timeshift |-> ts]

\* EPGProcessor._get_channel_offset at time t: the offset returned and the
\* timeshift section it leaves
GetChannelOffset(ts, channel_id, t) ==
    IF ts.force_offset # None /\ ts.force_offset_expiry # None
    THEN IF t < Val(ts.force_offset_expiry)
         THEN [offset |-> Val(ts.force_offset), timeshift |-> ts]
         ELSE LET cleared == [ts EXCEPT !.force_offset = None,
                                        !.force_offset_expiry = None]
              IN  [offset |-> ChannelOrDefault(cleared, channel_id),
                   timeshift |-> cleared]
    ELSE [offset |-> ChannelOrDefault(ts, channel_id), timeshift |-> ts]

\* a configuration file: missing, bytes that are no UTF-8 text, text that is
\* no JSON, or a JSON object with a top-level "offset_seconds" (the flat
\* shape), or with the "timeshift" section and the other sections
MissingFile == [state |-> "missing", offset_seconds |-> None, config |-> None]
NotUtf8File == [state |-> "not_utf8", offset_seconds |-> None, config |-> None]
NotJsonFile == [state |-> "not_json", offset_seconds |-> None, config |-> None]
FlatFile(v) == [state |-> "json", offset_seconds |-> Some(v), config |-> None]
LayeredFile(cfg) == [state |-> "json", offset_seconds |-> None, config |-> Some(cfg)]

\* _save_config: json.dump of the configuration to the configuration path
SaveConfig(cfg) == LayeredFile(cfg)

\* RunManager.get_status_report: 'force_offset_active' of the timeshift part
ForceOffsetActive(cfg) == cfg.force_offset # None

\* RunManager.list_channels: whether the line of the forced offset is printed
ListsForcedOffset(cfg) == cfg.force_offset # None

\* configurations a layered file can hold: the default one, one without the
\* output section, one with "retry_attempts": 0
NoOutputConfig == [DefaultConfig EXCEPT !.output = None]
NoRetryConfig == [DefaultConfig EXCEPT !.retry_attempts = 0]
LoadedConfigs == {DefaultConfig, NoOutputConfig, NoRetryConfig}

\* values of "offset_seconds" in a flat file
FlatOffsets == {-5, 0, 45}

\* the configuration files a processor is constructed over
ConfigFiles ==
    {MissingFile, NotUtf8File, NotJsonFile}
    \cup {FlatFile(v) : v \in FlatOffsets}
    \cup {LayeredFile(c) : c \in LoadedConfigs}

\* what a load does: the configuration returned, the file left behind, or an
\* exception that leaves the constructor
Loaded(cfg, file) == [raised |-> FALSE, config |-> Some(cfg), file |-> file]
LoadRaises(file) == [raised |-> TRUE, config |-> None, file |-> file]

\* the migration without line 90: the new configuration is not saved
ConvertOldConfigUnsaved(old_config) ==
    Loaded([DefaultConfig EXCEPT
                !.default_offset_seconds = Val(old_config.offset_seconds)],
           old_config)

\* EPGProcessor._convert_old_config: the default configuration with the flat
\* offset as default_offset_seconds, saved to the configuration path
ConvertOldConfig(old_config) ==
    LET new_config == [DefaultConfig EXCEPT
                           !.default_offset_seconds = Val(old_config.offset_seconds)]
    IN  Loaded(new_config, SaveConfig(new_config))

\* EPGProcessor._load_config.  A missing file and text that is no JSON return
\* the default configuration; bytes that are no UTF-8 raise UnicodeDecodeError,
\* which no except clause names; a flat object is converted; any other object
\* is returned as it is
LoadConfig(file) ==
    CASE file.state = "missing"  -> Loaded(DefaultConfig, file)
      [] file.state = "not_utf8" -> LoadRaises(file)
      [] file.state = "not_json" -> Loaded(DefaultConfig, file)
      [] OTHER ->
            IF file.offset_seconds # None /\ file.config = None
            THEN ConvertOldConfig(file)
            ELSE Loaded(Val(file.config), file)

(***************************************************************************)
(* Initial state: a processor constructed from a layered configuration file *)
(***************************************************************************)
NoMetrics == [channels_processed |-> 0, programmes_processed |-> 0, errors |-> <<>>]

AdjIdle ==
    /\ adjPc = "off"
    /\ adjIn = <<>> /\ adjN = 0 /\ adjOut = <<>> /\ adjBack = <<>>

RunInit ==
    /\ now \in Times
    /\ config \in LoadedConfigs
    /\ configFile = LayeredFile(config)
    /\ outputFile \in {"missing", "previous"}
    /\ backups = {}
    /\ pc = "idle"
    /\ attempt = 0
    /\ feed = NoFeed
    /\ doc = <<>>
    /\ metadata = FALSE
    /\ idx = 0
    /\ metrics = NoMetrics
    /\ result = None
    /\ prevOutput = outputFile
    /\ lastResolve = None
    /\ lapsed = None
    /\ softFailures = 0
    /\ offsets = <<>>
    /\ loads = <<>>

Init == RunInit /\ AdjIdle

(***************************************************************************)
(* Operations before the run                                               *)
(***************************************************************************)
\* the clock reads t: time passes (or the wall clock is set back) before a
\* step that reads it, in a setter, in the resolver or in _create_backup
Tick(t) ==
    /\ pc \in {"idle", "programmes", "save"}
    /\ t # now
    /\ now' = t
    /\ UNCHANGED <<config, configFile, outputFile, backups, pc, attempt, feed, doc,
                   metadata, idx, metrics, result, prevOutput, lastResolve, lapsed,
                   softFailures, offsets>>
    /\ UNCHANGED <<loads, adjVars>>

\* EPGProcessor.set_force_timeshift(offset_seconds, duration_hours)
SetForceTimeshift(offset_seconds, duration_hours) ==
    /\ pc = "idle"
    /\ config' = [config EXCEPT !.force_offset = Some(offset_seconds),
                                !.force_offset_expiry = Some(now + duration_hours)]
    /\ configFile' = SaveConfig(config')
    /\ lapsed' = None
    /\ UNCHANGED <<now, outputFile, backups, pc, attempt, feed, doc, metadata, idx,
                   metrics, result, prevOutput, lastResolve, softFailures, offsets>>
    /\ UNCHANGED <<loads, adjVars>>

\* EPGProcessor.set_channel_timeshift(channel_id, offset_seconds)
SetChannelTimeshift(channel_id, offset_seconds) ==
    /\ pc = "idle"
    /\ config' = [config EXCEPT !.per_channel =
                      [c \in DOMAIN config.per_channel \cup {channel_id} |->
                          IF c = channel_id THEN offset_seconds
                          ELSE config.per_channel[c]]]
    /\ configFile' = SaveConfig(config')
    /\ UNCHANGED <<now, outputFile, backups, pc, attempt, feed, doc, metadata, idx,
                   metrics, result, prevOutput, lastResolve, lapsed, softFailures, offsets>>
    /\ UNCHANGED <<loads, adjVars>>

(***************************************************************************)
(* EPGProcessor.process, step by step                                      *)
(***************************************************************************)
\* process() is called: _download_epg starts
ProcessStart ==
    /\ pc = "idle"
    /\ pc' = "download"
    /\ attempt' = 0
    /\ prevOutput' = outputFile
    /\ UNCHANGED <<now, config, configFile, outputFile, backups, feed, doc, metadata,
                   idx, metrics, result, lastResolve, lapsed, softFailures, offsets>>
    /\ UNCHANGED <<loads, adjVars>>

\* the cache file is valid: its bytes are returned without a request
CacheHit(f) ==
    /\ pc = "download" /\ attempt = 0
    /\ feed' = f
    /\ pc' = "parse"
    /\ UNCHANGED <<now, config, configFile, outputFile, backups, attempt, doc,
                   metadata, idx, metrics, result, prevOutput, lastResolve, lapsed,
                   softFailures, offsets>>
    /\ UNCHANGED <<loads, adjVars>>

\* one attempt of the retry loop answers: its content is returned
DownloadOk(f) ==
    /\ pc = "download" /\ attempt < config.retry_attempts
    /\ feed' = f
    /\ attempt' = 0
    /\ pc' = "parse"
    /\ UNCHANGED <<now, config, configFile, outputFile, backups, doc, metadata, idx,
                   metrics, result, prevOutput, lastResolve, lapsed, softFailures, offsets>>
    /\ UNCHANGED <<loads, adjVars>>

\* the retry loop with one attempt more than retry_attempts
DownloadFailOneMore ==
    /\ pc = "download" /\ 0 < config.retry_attempts /\ attempt <= config.retry_attempts
    /\ IF attempt = config.retry_attempts
       THEN /\ metrics' = [metrics EXCEPT !.errors = Append(@, "download")]
            /\ result' = Some(FALSE)
            /\ pc' = "done"
            /\ attempt' = 0
       ELSE /\ attempt' = attempt + 1
            /\ UNCHANGED <<metrics, result, pc>>
    /\ UNCHANGED <<now, config, configFile, outputFile, backups, feed, doc, metadata,
                   idx, prevOutput, lastResolve, lapsed, softFailures, offsets>>
    /\ UNCHANGED <<loads, adjVars>>

\* one attempt raises RequestException; the last one re-raises, and process()
\* catches it, records the error and returns False
DownloadFail ==
    /\ pc = "download" /\ attempt < config.retry_attempts
    /\ IF attempt = config.retry_attempts - 1
       THEN /\ metrics' = [metrics EXCEPT !.errors = Append(@, "download")]
            /\ result' = Some(FALSE)
            /\ pc' = "done"
            /\ attempt' = 0
       ELSE /\ attempt' = attempt + 1
            /\ UNCHANGED <<metrics, result, pc>>
    /\ UNCHANGED <<now, config, configFile, outputFile, backups, feed, doc, metadata,
                   idx, prevOutput, lastResolve, lapsed, softFailures, offsets>>
    /\ UNCHANGED <<loads, adjVars>>

\* range(retry_attempts) is empty: _download_epg returns None and process()
\* returns False
DownloadNone ==
    /\ pc = "download" /\ attempt >= config.retry_attempts
    /\ result' = Some(FALSE)
    /\ pc' = "done"
    /\ UNCHANGED <<now, config, configFile, outputFile, backups, attempt, feed, doc,
                   metadata, idx, metrics, prevOutput, lastResolve, lapsed,
                   softFailures, offsets>>
    /\ UNCHANGED <<loads, adjVars>>

\* _process_xml, lines 271-287: parse the bytes and walk the channel records;
\* bytes that are no XML raise, _process_xml returns None and process() False
ParseXml ==
    /\ pc = "parse"
    /\ IF feed.xml
       THEN /\ doc' = feed.programmes
            /\ idx' = 1
            /\ metrics' = [metrics EXCEPT !.channels_processed = @ + feed.channels]
            /\ pc' = "programmes"
            /\ UNCHANGED result
       ELSE /\ metrics' = [metrics EXCEPT !.errors = Append(@, "xml")]
            /\ result' = Some(FALSE)
            /\ pc' = "done"
            /\ UNCHANGED <<doc, idx>>
    /\ UNCHANGED <<now, config, configFile, outputFile, backups, attempt, feed,
                   metadata, prevOutput, lastResolve, lapsed, softFailures, offsets>>
    /\ UNCHANGED <<loads, adjVars>>

\* the offsets _get_channel_offset can return and the timestamps of the feeds
ResolvedOffsets == {DefaultOffset} \cup ChannelOffsets \cup ForcedOffsets
FeedTimestamps ==
    {Val(p.start) : p \in {q \in ProgrammeRecords : q.start # None}}
    \cup {Val(p.stop) : p \in {q \in ProgrammeRecords : q.stop # None}}

\* _apply_timeshift on each of them, worked out once: the value returned and
\* whether the except branch was taken
Timeshifted ==
    [t \in FeedTimestamps, n \in ResolvedOffsets |->
        [text |-> ApplyTimeshift(t, n), failed |-> SoftFails(t, n)]]

\* the assignment without the test of lines 296 and 299: an absent attribute
\* is set to the adjusted empty string
SetShiftedCreates(attr, offset) ==
    IF attr = None THEN Some(ApplyTimeshift(<<>>, offset))
    ELSE Some(Timeshifted[Val(attr), offset].text)

\* lines 296-300: an attribute that is present is set to its adjusted value
SetShifted(attr, offset) ==
    IF attr = None THEN None ELSE Some(Timeshifted[Val(attr), offset].text)

\* _process_xml, lines 291-302: one programme record
ProcessProgramme ==
    /\ pc = "programmes" /\ idx <= Len(doc)
    /\ LET programme == doc[idx]
           r == GetChannelOffset(config, programme.channel, now)
           failed(attr) ==
               IF attr # None /\ Timeshifted[Val(attr), r.offset].failed THEN 1 ELSE 0
       IN  /\ config' = r.timeshift
           /\ doc' = [doc EXCEPT ![idx].start = SetShifted(@, r.offset),
                                 ![idx].stop = SetShifted(@, r.offset)]
           /\ lastResolve' = Some([channel |-> programme.channel, at |-> now,
                                   before |-> config, after |-> r.timeshift,
                                   offset |-> r.offset, afterLapse |-> lapsed # None])
           /\ lapsed' = IF config.force_offset # None /\ r.timeshift.force_offset = None
                        THEN Some([force_offset |-> Val(config.force_offset),
                                   expiry |-> Val(config.force_offset_expiry)])
                        ELSE lapsed
           /\ softFailures' = softFailures + failed(programme.start)
                                           + failed(programme.stop)
           /\ offsets' = Append(offsets, r.offset)
    /\ metrics' = [metrics EXCEPT !.programmes_processed = @ + 1]
    /\ idx' = idx + 1
    /\ UNCHANGED <<now, configFile, outputFile, backups, pc, attempt, feed, metadata,
                   result, prevOutput>>
    /\ UNCHANGED <<loads, adjVars>>

\* _process_xml, lines 304-320: the metadata record when the output section
\* says so, the serialisation and _validate_xml, which parses the string again
\* and whose answer is not read.  Without an output section the read of
\* config['output'] raises KeyError: _process_xml records the error and
\* returns None, and process() returns False
FinishXml ==
    /\ pc = "programmes" /\ idx > Len(doc)
    /\ IF config.output # None
       THEN /\ metadata' = Val(config.output).include_metadata
            /\ pc' = "save"
            /\ UNCHANGED <<metrics, result>>
       ELSE /\ metrics' = [metrics EXCEPT !.errors = Append(@, "xml")]
            /\ result' = Some(FALSE)
            /\ pc' = "done"
            /\ UNCHANGED metadata
    /\ lastResolve' = None
    /\ UNCHANGED <<now, config, configFile, outputFile, backups, attempt, feed, doc,
                   idx, prevOutput, lapsed, softFailures, offsets>>
    /\ UNCHANGED <<loads, adjVars>>

\* _cleanup_old_backups: the names sorted most recent first, all after the
\* first max_backups removed
CleanupOldBackups(names, max_backups) ==
    {b \in names : Cardinality({c \in names : c > b}) < max_backups}

\* process(), lines 482-492.  _save_output: an existing output is renamed to
\* a backup (a failure of the rename is logged), then the file is written; a
\* failure to open or to write is logged, recorded in the metrics and not
\* raised.  Then the metrics report, _save_config, and process() returns True
SaveOutput(renamed, write) ==
    /\ pc = "save"
    /\ outputFile = "missing" => renamed
    /\ LET moved == outputFile # "missing" /\ renamed
           left  == IF moved THEN "missing" ELSE outputFile
       IN  /\ backups' = IF moved THEN CleanupOldBackups(backups \cup {now},
                                                     Val(config.output).keep_backups)
                         ELSE backups
           /\ outputFile' = CASE write = "ok" -> "new"
                              [] write = "open_failed" -> left
                              [] write = "write_failed" -> "partial"
    /\ metrics' = IF write = "ok" THEN metrics
                  ELSE [metrics EXCEPT !.errors = Append(@, "save")]
    /\ configFile' = SaveConfig(config)
    /\ result' = Some(TRUE)
    /\ pc' = "done"
    /\ UNCHANGED <<now, config, attempt, feed, doc, metadata, idx, prevOutput,
                   lastResolve, lapsed, softFailures, offsets>>
    /\ UNCHANGED <<loads, adjVars>>

Next ==
    \/ \E t \in Times : Tick(t)
    \/ \E o \in ForcedOffsets, d \in 0..MaxDuration : SetForceTimeshift(o, d)
    \/ \E c \in ConfiguredChannels, o \in ChannelOffsets : SetChannelTimeshift(c, o)
    \/ ProcessStart
    \/ \E f \in Feeds : CacheHit(f)
    \/ \E f \in Feeds : DownloadOk(f)
    \/ DownloadFail
    \/ DownloadNone
    \/ ParseXml
    \/ ProcessProgramme
    \/ FinishXml
    \/ \E renamed \in BOOLEAN, write \in {"ok", "open_failed", "write_failed"} :
           SaveOutput(renamed, write)

Spec == Init /\ [][Next]_vars

\* a step of _download_epg: the cache is read, or a request answers or raises
\* (session.get has a timeout), or the loop has nothing to run
DownloadStep ==
    \/ \E f \in Feeds : CacheHit(f)
    \/ \E f \in Feeds : DownloadOk(f)
    \/ DownloadFail
    \/ DownloadNone

\* process() up to the return of _download_epg, after any calls of the
\* setters; no request is waited on for ever
NextDownload ==
    \/ \E t \in Times : Tick(t)
    \/ \E o \in ForcedOffsets, d \in 0..MaxDuration : SetForceTimeshift(o, d)
    \/ \E c \in ConfiguredChannels, o \in ChannelOffsets : SetChannelTimeshift(c, o)
    \/ ProcessStart
    \/ DownloadStep

SpecDownload == Init /\ [][NextDownload]_vars /\ WF_vars(DownloadStep)

(***************************************************************************)
(* The adjuster on its own: one input, adjusted by n and then by -n        *)
(***************************************************************************)
RunIdle ==
    /\ RunInit
    /\ now = 0
    /\ config = DefaultConfig
    /\ outputFile = "missing"

InitAdjust ==
    /\ RunIdle
    /\ adjPc = "input"
    /\ adjIn \in TimestampInputs
    /\ adjN \in OffsetInputs
    /\ adjOut = <<>>
    /\ adjBack = <<>>

Adjust ==
    /\ adjPc = "input"
    /\ adjOut' = ApplyTimeshift(adjIn, adjN)
    /\ adjPc' = "adjusted"
    /\ UNCHANGED <<adjIn, adjN, adjBack>>
    /\ UNCHANGED runVars

AdjustBack ==
    /\ adjPc = "adjusted"
    /\ adjBack' = ApplyTimeshift(adjOut, -adjN)
    /\ adjPc' = "back"
    /\ UNCHANGED <<adjIn, adjN, adjOut>>
    /\ UNCHANGED runVars

NextAdjust == Adjust \/ AdjustBack

SpecAdjust == InitAdjust /\ [][NextAdjust]_vars

(***************************************************************************)
(* _save_output on its own: run after run over one output file             *)
(***************************************************************************)
\* a configuration with "keep_backups": 0
NoBackupsConfig ==
    [DefaultConfig EXCEPT !.output = Some([keep_backups |-> 0,
                                           include_metadata |-> TRUE])]

\* the timestamps of backups that runs before time 0 left
EarlierBackups == {-3, -2, -1}

\* a run has reached _save_output; earlier runs left at most keep_backups
\* backups
InitSave ==
    /\ now \in Times
    /\ config \in {DefaultConfig, NoBackupsConfig}
    /\ configFile = LayeredFile(config)
    /\ outputFile \in {"missing", "previous"}
    /\ backups \in {b \in SUBSET EarlierBackups :
                        Cardinality(b) <= Val(config.output).keep_backups}
    /\ pc = "save"
    /\ attempt = 0
    /\ feed = NoFeed
    /\ doc = <<>>
    /\ metadata = TRUE
    /\ idx = 1
    /\ metrics = NoMetrics
    /\ result = None
    /\ prevOutput = outputFile
    /\ lastResolve = None
    /\ lapsed = None
    /\ softFailures = 0
    /\ offsets = <<>>
    /\ loads = <<>>
    /\ AdjIdle

\* process() is called again and reaches _save_output
RunAgain ==
    /\ pc = "done"
    /\ pc' = "save"
    /\ result' = None
    /\ metrics' = NoMetrics
    /\ prevOutput' = outputFile
    /\ UNCHANGED <<now, config, configFile, outputFile, backups, attempt, feed, doc,
                   metadata, idx, lastResolve, lapsed, softFailures, offsets, loads>>
    /\ UNCHANGED adjVars

NextSave ==
    \/ \E t \in Times : Tick(t)
    \/ \E renamed \in BOOLEAN, write \in {"ok", "open_failed", "write_failed"} :
           SaveOutput(renamed, write)
    \/ RunAgain

SpecSave == InitSave /\ [][NextSave]_vars

(***************************************************************************)
(* Construction: the processor over any configuration file                 *)
(***************************************************************************)
InitLoad ==
    /\ now = 0
    /\ config = None
    /\ configFile \in ConfigFiles
    /\ outputFile = "missing"
    /\ backups = {}
    /\ pc = "new"
    /\ attempt = 0
    /\ feed = NoFeed
    /\ doc = <<>>
    /\ metadata = FALSE
    /\ idx = 0
    /\ metrics = NoMetrics
    /\ result = None
    /\ prevOutput = outputFile
    /\ lastResolve = None
    /\ lapsed = None
    /\ softFailures = 0
    /\ offsets = <<>>
    /\ loads = <<>>
    /\ AdjIdle

\* EPGProcessor.__init__: the configuration is loaded; an exception of the
\* load ends the program
Construct ==
    /\ pc = "new"
    /\ LET r == LoadConfig(configFile)
       IN  /\ loads' = Append(loads, [from |-> configFile, to |-> r.file,
                                      config |-> r.config, raised |-> r.raised])
           /\ configFile' = r.file
           /\ IF r.raised
              THEN pc' = "crashed" /\ UNCHANGED config
              ELSE pc' = "idle" /\ config' = Val(r.config)
    /\ metrics' = NoMetrics
    /\ UNCHANGED <<now, outputFile, backups, attempt, feed, doc, metadata, idx,
                   result, prevOutput, lastResolve, lapsed, softFailures, offsets>>
    /\ UNCHANGED adjVars

\* the program exits without a run (run_manager --status, --list-channels)
\* and is started again
Exit ==
    /\ pc = "idle"
    /\ Len(loads) < MaxLoads
    /\ pc' = "new"
    /\ config' = None
    /\ lapsed' = None
    /\ UNCHANGED <<now, configFile, outputFile, backups, attempt, feed, doc, metadata,
                   idx, metrics, result, prevOutput, lastResolve, softFailures,
                   offsets, loads>>
    /\ UNCHANGED adjVars

NextLoad ==
    \/ Construct
    \/ Exit
    \/ \E t \in Times : Tick(t)
    \/ \E o \in ForcedOffsets, d \in 0..MaxDuration : SetForceTimeshift(o, d)
    \/ \E c \in ConfiguredChannels, o \in ChannelOffsets : SetChannelTimeshift(c, o)

SpecLoad == InitLoad /\ [][NextLoad]_vars

(***************************************************************************)
(* Claims on the offset resolver                                           *)
(***************************************************************************)
\* the forced offset is in force: both fields are set and the time is before
\* the expiry
ForcedInForce(ts, t) ==
    /\ ts.force_offset # None
    /\ ts.force_offset_expiry # None
    /\ t < Val(ts.force_offset_expiry)

\* the forced offset has lapsed: both fields are set and the expiry is reached
ForcedLapsed(ts, t) ==
    /\ ts.force_offset # None
    /\ ts.force_offset_expiry # None
    /\ t >= Val(ts.force_offset_expiry)

\* C1: every call of the resolver returns the forced offset when both forced
\* fields are set and now < expiry, whatever the channel id; otherwise the
\* per_channel value when the channel id is a key of per_channel; otherwise
\* default_offset_seconds.
C1_ResolutionPriority ==
    lastResolve # None =>
        LET r == Val(lastResolve)
        IN  r.offset =
                IF ForcedInForce(r.before, r.at) THEN Val(r.before.force_offset)
                ELSE IF r.channel \in DOMAIN r.before.per_channel
                     THEN r.before.per_channel[r.channel]
                     ELSE r.before.default_offset_seconds

\* C1 witness: a call for a channel with a per-channel offset of 10, made while
\* a forced offset of 99 is in force, has returned 99.
C1_Witness ==
    /\ lastResolve # None
    /\ LET r == Val(lastResolve)
       IN  /\ ForcedInForce(r.before, r.at)
           /\ r.channel \in DOMAIN r.before.per_channel
           /\ r.before.per_channel[r.channel] = 10
           /\ r.before.default_offset_seconds = 30
           /\ r.offset = 99

\* C2: a resolver call made at now >= expiry with both forced fields set
\* leaves both fields cleared in memory and returns the per-channel/default
\* offset; from then on the fields stay cleared, and every later call, at any
\* time, returns the per-channel/default offset and not the lapsed value.
C2_LapsedForcedCleared ==
    /\ lastResolve # None =>
           LET r == Val(lastResolve)
               perChannelOrDefault ==
                   IF r.channel \in DOMAIN r.before.per_channel
                   THEN r.before.per_channel[r.channel]
                   ELSE r.before.default_offset_seconds
           IN  /\ ForcedLapsed(r.before, r.at) =>
                      /\ r.after.force_offset = None
                      /\ r.after.force_offset_expiry = None
                      /\ r.offset = perChannelOrDefault
               /\ r.afterLapse =>
                      /\ r.offset = perChannelOrDefault
                      /\ r.offset # Val(lapsed).force_offset
    /\ lapsed # None =>
           /\ config.force_offset = None
           /\ config.force_offset_expiry = None

\* C2 witness: after the forced offset was cleared, a later call was made at a
\* time before the lapsed expiry (the clock stepped back) and did not return
\* the lapsed value.
C2_Witness ==
    /\ lapsed # None
    /\ lastResolve # None
    /\ Val(lastResolve).afterLapse
    /\ Val(lastResolve).at < Val(lapsed).expiry
    /\ Val(lastResolve).offset # Val(lapsed).force_offset

(***************************************************************************)
(* Claims on the timestamp adjuster (under SpecAdjust)                     *)
(***************************************************************************)
\* a timestamp of the canonical form: 14 digits, alone or followed by one
\* space and a timezone token, a sign and four digits
WellFormed(t) ==
    /\ Len(t) \in {14, 20}
    /\ AllDigits(SubSeq(t, 1, 14))
    /\ Len(t) = 20 =>
           /\ t[15] = " "
           /\ t[16] \in {"+", "-"}
           /\ AllDigits(SubSeq(t, 17, 20))

\* the first 14 characters are a valid calendar date-time
CalendarValid(t) ==
    LET f == DateFields(SubSeq(t, 1, 14))
    IN  ValidDateTime(f.year, f.month, f.day, f.hour, f.minute, f.second)

\* shorter than 14 characters, or the first 14 not all digits, or no valid
\* calendar date-time
Malformed(t) ==
    \/ Len(t) < 14
    \/ ~AllDigits(SubSeq(t, 1, 14))
    \/ ~CalendarValid(t)

\* the 14 digits of the date-time of t plus n seconds, by calendar arithmetic
DatePlus(t, n) ==
    LET f  == DateFields(SubSeq(t, 1, 14))
        dt == Shift([year |-> f.year, month |-> f.month, day |-> f.day,
                     hour |-> f.hour, minute |-> f.minute, second |-> f.second,
                     aware |-> FALSE, tz |-> 0], n)
    IN  Pad2(dt.year \div 100) \o Pad2(dt.year % 100) \o Pad2(dt.month) \o Pad2(dt.day)
        \o Pad2(dt.hour) \o Pad2(dt.minute) \o Pad2(dt.second)

\* C3: for every well-formed timestamp t and offset n in [-86400, 86400],
\* adjusting t by n and the result by -n gives t back.
C3_RoundTrip ==
    (adjPc = "back" /\ WellFormed(adjIn) /\ adjN \in -86400..86400)
        => adjBack = adjIn

\* C4: a malformed input (too short, non-digit date portion, or no valid
\* calendar date-time) is returned unchanged, for every offset.
C4_SoftFailure ==
    (adjPc \in {"adjusted", "back"} /\ Malformed(adjIn)) => adjOut = adjIn

\* C5: on a successful adjust of a well-formed timestamp the result is the 14
\* digits of the date-time plus the offset, followed by what followed the 14
\* digits in the input, verbatim (a space and the token, or nothing).
C5_ShiftedTokenVerbatim ==
    (/\ adjPc \in {"adjusted", "back"}
     /\ WellFormed(adjIn) /\ CalendarValid(adjIn)
     /\ ~SoftFails(adjIn, adjN))
        => adjOut = DatePlus(adjIn, adjN) \o SubSeq(adjIn, 15, Len(adjIn))

(***************************************************************************)
(* Claims on the run                                                       *)
(***************************************************************************)
\* the transformation pass is over: every programme record was visited
PassDone == pc = "save" \/ (pc = "done" /\ result = Some(TRUE))

\* an attribute that is present and malformed
MalformedAttr(attr) == attr # None /\ Malformed(Val(attr))

\* an attribute shifted by n: its date-time plus n, what follows it verbatim
ShiftedAttr(attr, n) ==
    IF attr = None THEN None
    ELSE Some(DatePlus(Val(attr), n) \o SubSeq(Val(attr), 15, Len(Val(attr))))

\* C6: no bad record aborts the run: once a document is parsed the pass
\* visits every programme record; a record with a malformed start or stop is
\* left as it was, and every other record has its start and stop shifted by
\* the offset resolved for it.
C6_BadRecordLeftOthersShifted ==
    /\ (pc = "done" /\ feed.xml) => Len(offsets) = Len(feed.programmes)
    /\ PassDone =>
           \A i \in 1..Len(feed.programmes) :
               LET before == feed.programmes[i]
                   after  == doc[i]
               IN  IF MalformedAttr(before.start) \/ MalformedAttr(before.stop)
                   THEN after = before
                   ELSE /\ after.channel = before.channel
                        /\ after.start = ShiftedAttr(before.start, offsets[i])
                        /\ after.stop = ShiftedAttr(before.stop, offsets[i])

\* the root tag validation expects (the XMLTV root element)
ExpectedRoot == "tv"

\* C7: a document with another root tag, or without channel records, or
\* without programme records makes process() return False and leaves the
\* output file as it was.
C7_StructuralRejection ==
    (/\ pc = "done" /\ feed.xml
     /\ (feed.root # ExpectedRoot \/ feed.channels = 0 \/ feed.programmes = <<>>))
        => (result = Some(FALSE) /\ outputFile = prevOutput)

\* C8: when the feed holds at least one programme record and no record was
\* modified, process() returns False and no output file is published.
C8_NothingModifiedFails ==
    (/\ pc = "done" /\ feed.xml
     /\ Len(feed.programmes) >= 1
     /\ doc = feed.programmes)
        => (result = Some(FALSE) /\ outputFile = prevOutput)

\* C9: process() ends either returning True with the new output written, or
\* returning False with the previous output file as it was.
C9_AllOrNothing ==
    pc = "done" =>
        \/ (result = Some(TRUE) /\ outputFile = "new")
        \/ (result = Some(FALSE) /\ outputFile = prevOutput)

\* C10: after the transformation pass the error counter equals the number of
\* timestamps that took the soft-failure path of the adjuster.
C10_ErrorCount ==
    pc = "save" => Len(metrics.errors) = softFailures

\* the start and stop attributes whose string differs between the input and
\* the output document
ChangedAttributes ==
    {<<i, "start">> : i \in {j \in 1..Len(doc) : doc[j].start # feed.programmes[j].start}}
    \cup {<<i, "stop">> : i \in {j \in 1..Len(doc) : doc[j].stop # feed.programmes[j].stop}}

\* C11: the count of processed programmes of the run never exceeds the number
\* of start and stop attributes whose string changed: a record with both
\* timestamps malformed, both absent, or shifted by 0 does not increase it.
C11_ModifiedCount ==
    (pc \in {"programmes", "save"} \/ (pc = "done" /\ feed.xml))
        => metrics.programmes_processed <= Cardinality(ChangedAttributes)

\* C14: when process() has returned, True or False, after a run in which
\* the resolver cleared a lapsed forced offset in memory, the configuration
\* file holds neither force_offset nor force_offset_expiry.
C14_ClearingWrittenBack ==
    (pc = "done" /\ lapsed # None) =>
        /\ configFile.config # None
        /\ Val(configFile.config).force_offset = None
        /\ Val(configFile.config).force_offset_expiry = None

C16_BoundedRetry ==
    /\ [][/\ pc = "download" =>
               /\ pc' \in {"download", "parse", "done"}
               /\ attempt' # attempt =>
                      (attempt' = attempt + 1 /\ attempt' < config.retry_attempts)
                      \/ (attempt' = 0 /\ pc' # "download")
               /\ pc' = "parse" => (feed' \in Feeds /\ result' = None)
               /\ pc' = "done" =>
                      /\ config.retry_attempts = 0
                         \/ attempt = config.retry_attempts - 1
                      /\ result' = Some(FALSE)
                      /\ outputFile' = outputFile
                      /\ backups' = backups
                      /\ configFile' = configFile
          /\ pc \in {"parse", "done"} => pc' # "download"]_vars
    /\ [](pc = "download" => attempt <= config.retry_attempts)
    /\ (pc = "download") ~> (pc # "download")

\* C16 witness: with retry_attempts 3 every attempt has failed and process()
\* has returned False, the output file as it was and nothing saved.
C16_Witness ==
    /\ pc = "done"
    /\ config.retry_attempts = 3
    /\ result = Some(FALSE)
    /\ metrics.errors = <<"download">>
    /\ outputFile = prevOutput
    /\ feed = NoFeed

\* C17: within one pass the programme records that carry the same channel
\* attribute are shifted by the same offset, also when the forced offset
\* lapses while the pass runs.
C17_OneOffsetPerChannel ==
    (pc \in {"programmes", "save", "done"} /\ feed.xml) =>
        \A i, j \in 1..Len(offsets) :
            doc[i].channel = doc[j].channel => offsets[i] = offsets[j]

\* the k most recent of a set of backup timestamps
MostRecent(names, k) ==
    CHOOSE kept \in SUBSET names :
        /\ Cardinality(kept) = IF Cardinality(names) < k THEN Cardinality(names) ELSE k
        /\ \A b \in kept, c \in names \ kept : b > c

\* C18 (under SpecSave): a call of _save_output that finds an output file
\* moves it to a backup name no backup had, and leaves the keep_backups most
\* recent of the backups, so at most keep_backups of them.
C18_BackupRotation ==
    [][(pc = "save" /\ pc' = "done" /\ outputFile # "missing") =>
           /\ now \notin backups
           /\ backups' = MostRecent(backups \cup {now}, Val(config.output).keep_backups)
           /\ Cardinality(backups') <= Val(config.output).keep_backups]_vars

\* C19: at every time and in every configuration the status report's
\* force_offset_active, and the forced-offset line of list_channels, is true
\* exactly when the resolver would return the forced offset: both forced
\* fields set and now < expiry.
C19_ReportAgreesWithResolver ==
    /\ ForceOffsetActive(config) <=> ForcedInForce(config, now)
    /\ ListsForcedOffset(config) <=> ForcedInForce(config, now)

(***************************************************************************)
(* Claims on the configuration (under SpecLoad)                            *)
(***************************************************************************)
\* a file that is missing or cannot be parsed as JSON
Unparseable(file) == file.state # "json"

\* a flat file: a top-level offset_seconds and no timeshift section
Flat(file) == file.state = "json" /\ file.offset_seconds # None /\ file.config = None

\* a file of the layered shape: the timeshift section, no flat offset_seconds
Layered(file) == file.state = "json" /\ file.offset_seconds = None /\ file.config # None

\* C12: a load over a file that is missing or cannot be parsed as JSON does
\* not abort, returns the default configuration and leaves the default
\* configuration saved at the configuration path.
C12_LoadFallsBackAndPersists ==
    \A i \in 1..Len(loads) :
        Unparseable(loads[i].from) =>
            /\ ~loads[i].raised
            /\ loads[i].config = Some(DefaultConfig)
            /\ loads[i].to = LayeredFile(DefaultConfig)

=============================================================================
